---- MODULE Spec2Model ----
(***************************************************************************)
(* A model of flydent: the US N-Number <-> ICAO 24-bit address codec       *)
(* (src/src/registration.rs), the ICAO country allocation lookup           *)
(* (src/src/icao.rs), and the Parser over the reference dataset with its   *)
(* lazily built indexes (src/src/lib.rs).                                  *)
(*                                                                         *)
(* Strings are sequences of one-character strings, so that indexing,       *)
(* slicing, searching and concatenation are modelled as the code does      *)
(* them.  A Rust Result is a record [tag, val] with tag "Ok" or "Err"; a   *)
(* call that aborts the process (a panic) has tag "Panic".  An Option is   *)
(* its value, or None.                                                     *)
(***************************************************************************)
EXTENDS Integers, Sequences, FiniteSets, TLC

VARIABLES
    fn,      \* the public function the caller invokes
    input,   \* its argument
    output,  \* its outcome, NotCalled before the call
    back,    \* the outcome of the inverse function applied to an Ok output
    data,    \* the reference dataset the Parser is built over (lib.rs DATA)
    cells,   \* the lazily initialised statics of lib.rs
    threads  \* the threads that force them

vars == <<fn, input, output, back, data, cells, threads>>

\* the variables only the Parser of lib.rs uses
parser_vars == <<data, cells, threads>>

\* a call of registration.rs or icao.rs touches nothing of the Parser
ParserUnused == data = <<>> /\ cells = <<>> /\ threads = <<>>

NotCalled == [tag |-> "NotCalled", val |-> <<>>]
Ok(v) == [tag |-> "Ok", val |-> v]
Err(m) == [tag |-> "Err", val |-> m]
Panic(m) == [tag |-> "Panic", val |-> m]
None == -1

(***************************************************************************)
(* u32 arithmetic.  TLC's integers are 32-bit signed, so a u32 is held    *)
(* as the integer with the same 32 bits read as two's complement: the      *)
(* u32 values 2^31 .. 2^32-1 appear as value - 2^32, which is negative.    *)
(* Every operation returns <<wrapped result, overflowed>>: a build with    *)
(* overflow checks (debug profile) panics when overflowed is TRUE, a build *)
(* without them (release profile) continues with the wrapped result.       *)
(***************************************************************************)
MaxI32 == 2147483647
MinI32 == -2147483647 - 1

u32_lt(a, b) == IF (a < 0) = (b < 0) THEN a < b ELSE b < 0

u32_add(a, b) ==
    IF a >= 0 /\ b >= 0
    THEN IF a > MaxI32 - b THEN <<(a + MinI32) + (b + MinI32), FALSE>>
                           ELSE <<a + b, FALSE>>
    ELSE IF a < 0 /\ b < 0
    THEN IF a < MinI32 - b THEN <<(a - MinI32) + (b - MinI32), TRUE>>
                           ELSE <<a + b, TRUE>>
    ELSE <<a + b, a + b >= 0>>

u32_sub(a, b) ==
    IF (a < 0) = (b < 0) THEN <<a - b, a < b>>
    ELSE IF b < 0
    THEN IF a > MaxI32 + b THEN <<(a + MinI32) - (b - MinI32), TRUE>>
                           ELSE <<a - b, TRUE>>
    ELSE IF a < MinI32 + b THEN <<(a - MinI32) - (b + MinI32), FALSE>>
                           ELSE <<a - b, FALSE>>

\* a * b for a >= 0 and 0 <= b < 2^31, by doubling: every partial product is
\* at most the final one, so a carry out of any step is a carry out of the
\* product.
RECURSIVE u32_mul_nat(_, _)
u32_mul_nat(a, b) ==
    IF b = 0 THEN <<0, FALSE>>
    ELSE LET half == u32_mul_nat(a, b \div 2)
             dbl  == u32_add(half[1], half[1])
             odd  == IF b % 2 = 1 THEN u32_add(dbl[1], a) ELSE <<dbl[1], FALSE>>
         IN  <<odd[1], half[2] \/ dbl[2] \/ odd[2]>>

\* The 32 bits of a product are those of the product of the operands read as
\* signed numbers: sign and magnitude are multiplied apart.  A factor of
\* 2^31 or more (negative here) overflows unless the other is 0 or 1.
u32_mul(a, b) ==
    IF a >= 0 /\ b >= 0
    THEN IF a <= b THEN u32_mul_nat(b, a) ELSE u32_mul_nat(a, b)
    ELSE LET overflowed == a # 0 /\ a # 1 /\ b # 0 /\ b # 1
         IN  IF a = MinI32 THEN <<IF b % 2 = 1 THEN MinI32 ELSE 0, overflowed>>
             ELSE IF b = MinI32 THEN <<IF a % 2 = 1 THEN MinI32 ELSE 0, overflowed>>
             ELSE LET ma == IF a < 0 THEN -a ELSE a
                      mb == IF b < 0 THEN -b ELSE b
                      p  == IF ma <= mb THEN u32_mul_nat(mb, ma)
                                        ELSE u32_mul_nat(ma, mb)
                  IN  IF (a < 0) # (b < 0) THEN <<u32_sub(0, p[1])[1], overflowed>>
                                           ELSE <<p[1], overflowed>>

(***************************************************************************)
(* Constants of registration.rs.                                           *)
(***************************************************************************)
US_BASE == 10485760   \* 0xA00000
US_MAX == 11401159    \* 0xADF7C7

CHARSET == <<"A","B","C","D","E","F","G","H","J","K","L","M",
             "N","P","Q","R","S","T","U","V","W","X","Y","Z">>
DIGITS == <<"0","1","2","3","4","5","6","7","8","9">>
ALLCHARS == CHARSET \o DIGITS

SUFFIX_SIZE == 1 + 24 * (1 + 24)
BUCKET4_SIZE == 1 + 24 + 10
BUCKET3_SIZE == 10 * BUCKET4_SIZE + SUFFIX_SIZE
BUCKET2_SIZE == 10 * BUCKET3_SIZE + SUFFIX_SIZE
BUCKET1_SIZE == 10 * BUCKET2_SIZE + SUFFIX_SIZE

(***************************************************************************)
(* str primitives of the standard library, as the code uses them.          *)
(***************************************************************************)
\* str::find(char) / chars().position: 0-based index of the first c, or None.
find(s, c) ==
    LET hits == {i \in 1..Len(s) : s[i] = c}
    IN  IF hits = {} THEN None
        ELSE (CHOOSE i \in hits : \A j \in hits : i <= j) - 1

contains(s, c) == \E i \in 1..Len(s) : s[i] = c

\* starts_with that leaves the last character of the prefix untested
starts_with_but_last(s, prefix) ==
    /\ Len(prefix) <= Len(s)
    /\ \A i \in 1..(Len(prefix) - 1) : s[i] = prefix[i]

\* str::starts_with(&str)
starts_with(s, prefix) ==
    /\ Len(prefix) <= Len(s)
    /\ \A i \in 1..Len(prefix) : s[i] = prefix[i]

\* char::is_whitespace, for the characters the model feeds in
is_whitespace(c) == c \in {" ", "\t"}

\* UTF-8 length of a character.  The model's only non-ASCII character is
\* U+00E9 (two bytes), written as the token NON_ASCII.
NON_ASCII == "U+00E9"
len_utf8(c) == IF c = NON_ASCII THEN 2 ELSE 1

RECURSIVE byte_len(_)
byte_len(s) == IF s = <<>> THEN 0 ELSE len_utf8(Head(s)) + byte_len(Tail(s))

RECURSIVE trim_start(_)
trim_start(s) ==
    IF s # <<>> /\ is_whitespace(Head(s)) THEN trim_start(Tail(s)) ELSE s

RECURSIVE trim_end(_)
trim_end(s) ==
    IF s # <<>> /\ is_whitespace(s[Len(s)])
    THEN trim_end(SubSeq(s, 1, Len(s) - 1)) ELSE s

trim(s) == trim_end(trim_start(s))

ASCII_LOWER == <<"a","b","c","d","e","f","g","h","i","j","k","l","m",
                 "n","o","p","q","r","s","t","u","v","w","x","y","z">>
ASCII_UPPER == <<"A","B","C","D","E","F","G","H","I","J","K","L","M",
                 "N","O","P","Q","R","S","T","U","V","W","X","Y","Z">>

\* Every character the model passes to the code.
Chars ==
    {ASCII_UPPER[i] : i \in 1..26} \cup {ASCII_LOWER[i] : i \in 1..26}
    \cup {DIGITS[i] : i \in 1..10} \cup {" ", "\t", "-", NON_ASCII}

\* The searches the code makes in its two alphabets, tabulated per character.
CHARSET_find == [c \in Chars |-> find(CHARSET, c)]
ALLCHARS_find == [c \in Chars |-> find(ALLCHARS, c)]

\* char::to_ascii_uppercase
char_to_ascii_uppercase ==
    [c \in Chars |->
        IF contains(ASCII_LOWER, c)
        THEN ASCII_UPPER[find(ASCII_LOWER, c) + 1] ELSE c]

to_ascii_uppercase(s) == [i \in 1..Len(s) |-> char_to_ascii_uppercase[s[i]]]

\* char::to_digit(10)
to_digit == [c \in Chars |-> find(DIGITS, c)]

\* to_string that pads with a leading zero
to_string_zero_padded(n) == <<"0", DIGITS[(n % 10) + 1]>>

\* u32::to_string() of a one-digit value; longer values keep every digit
RECURSIVE to_string(_)
to_string(n) ==
    LET d == DIGITS[(n % 10) + 1]
    IN  IF n < 10 THEN <<d>> ELSE to_string(n \div 10) \o <<d>>

(***************************************************************************)
(* registration.rs                                                         *)
(***************************************************************************)
u32_to_arr3(x) == <<(x \div 65536) % 256, (x \div 256) % 256, x % 256>>

arr3_to_u32(a) == a[1] * 65536 + a[2] * 256 + a[3]

\* get_suffix that reads rem itself as the index of the second letter
get_suffix_rem_unshifted(offset) ==
    IF offset = 0 THEN Ok(<<>>)
    ELSE LET char0_idx == (offset - 1) \div 25
             rem == (offset - 1) % 25
         IN  IF char0_idx >= Len(CHARSET) THEN Panic("unwrap on None")
             ELSE IF rem = 0 THEN Ok(<<CHARSET[char0_idx + 1]>>)
             ELSE IF rem >= Len(CHARSET) THEN Panic("unwrap on None")
             ELSE Ok(<<CHARSET[char0_idx + 1], CHARSET[rem + 1]>>)

\* get_suffix with the letter groups taken 24 wide instead of 25
get_suffix_group24(offset) ==
    IF offset = 0 THEN Ok(<<>>)
    ELSE LET char0_idx == (offset - 1) \div 24
             rem == (offset - 1) % 24
         IN  IF char0_idx >= Len(CHARSET) THEN Panic("unwrap on None")
             ELSE IF rem = 0 THEN Ok(<<CHARSET[char0_idx + 1]>>)
             ELSE IF rem - 1 >= Len(CHARSET) THEN Panic("unwrap on None")
             ELSE Ok(<<CHARSET[char0_idx + 1], CHARSET[rem]>>)

\* get_suffix: the suffix string of an offset; nth(..).unwrap() panics when
\* the index is past the end of CHARSET.
get_suffix(offset) ==
    IF offset = 0 THEN Ok(<<>>)
    ELSE LET char0_idx == (offset - 1) \div 25
             rem == (offset - 1) % 25
         IN  IF char0_idx >= Len(CHARSET) THEN Panic("unwrap on None")
             ELSE IF rem = 0 THEN Ok(<<CHARSET[char0_idx + 1]>>)
             ELSE IF rem - 1 >= Len(CHARSET) THEN Panic("unwrap on None")
             ELSE Ok(<<CHARSET[char0_idx + 1], CHARSET[rem]>>)

\* suffix_offset that leaves the second letter's + 1 out
suffix_offset_second_from_zero(s) ==
    IF s = <<>> THEN 0
    ELSE IF byte_len(s) > 2 THEN None
    ELSE LET idx0 == CHARSET_find[s[1]]
         IN  IF idx0 = None THEN None
             ELSE IF Len(s) = 2
                  THEN LET idx1 == CHARSET_find[s[2]]
                       IN  IF idx1 = None THEN None
                           ELSE (25 * idx0 + 1) + idx1
                  ELSE 25 * idx0 + 1

\* suffix_offset: the offset of a suffix string, or None
suffix_offset(s) ==
    IF s = <<>> THEN 0
    ELSE IF byte_len(s) > 2 THEN None
    ELSE LET idx0 == CHARSET_find[s[1]]
         IN  IF idx0 = None THEN None
             ELSE IF Len(s) = 2
                  THEN LET idx1 == CHARSET_find[s[2]]
                       IN  IF idx1 = None THEN None
                           ELSE (25 * idx0 + 1) + (idx1 + 1)
                  ELSE 25 * idx0 + 1

\* one u32 operation r = <<wrapped, overflowed>> in a build with or without
\* overflow checks
checked(r, overflow_checks, what) ==
    IF r[2] /\ overflow_checks THEN Panic(what) ELSE Ok(r[1])

\* digit_term that never adds SUFFIX_SIZE
digit_term_without_suffix_size(i, digit, overflow_checks) ==
    IF i = 0
    THEN LET s == checked(u32_sub(digit, 1), overflow_checks,
                          "attempt to subtract with overflow")
         IN  IF s.tag # "Ok" THEN s
             ELSE checked(u32_mul(s.val, BUCKET1_SIZE), overflow_checks,
                          "attempt to multiply with overflow")
    ELSE checked(u32_mul(digit, CASE i = 1 -> BUCKET2_SIZE
                                  [] i = 2 -> BUCKET3_SIZE
                                  [] OTHER -> BUCKET4_SIZE),
                 overflow_checks, "attempt to multiply with overflow")

\* digit_term with the first digit not reduced by one
digit_term_first_digit_unreduced(i, digit, overflow_checks) ==
    LET size == CASE i = 0 -> BUCKET1_SIZE
                  [] i = 1 -> BUCKET2_SIZE
                  [] i = 2 -> BUCKET3_SIZE
                  [] OTHER -> BUCKET4_SIZE
        m == checked(u32_mul(digit, size), overflow_checks,
                     "attempt to multiply with overflow")
    IN  IF m.tag # "Ok" \/ i = 0 THEN m
        ELSE checked(u32_add(m.val, SUFFIX_SIZE), overflow_checks,
                     "attempt to add with overflow")

\* what a digit at position i of the remainder adds to count (lines 132-138)
digit_term(i, digit, overflow_checks) ==
    IF i = 0
    THEN LET s == checked(u32_sub(digit, 1), overflow_checks,
                          "attempt to subtract with overflow")
         IN  IF s.tag # "Ok" THEN s
             ELSE checked(u32_mul(s.val, BUCKET1_SIZE), overflow_checks,
                          "attempt to multiply with overflow")
    ELSE LET size == CASE i = 1 -> BUCKET2_SIZE
                       [] i = 2 -> BUCKET3_SIZE
                       [] OTHER -> BUCKET4_SIZE
             m == checked(u32_mul(digit, size), overflow_checks,
                          "attempt to multiply with overflow")
         IN  IF m.tag # "Ok" THEN m
             ELSE checked(u32_add(m.val, SUFFIX_SIZE), overflow_checks,
                          "attempt to add with overflow")

\* count += term, for a term that was computed without a panic
add_to_count(count, term, overflow_checks) ==
    IF term.tag # "Ok" THEN term
    ELSE checked(u32_add(count, term.val), overflow_checks,
                 "attempt to add with overflow")

\* the loop over the characters after the N (lines 116-140), from position i
\* with the accumulator at count: Ok(count) when the loop ends or breaks
RECURSIVE encode_loop(_, _, _, _)
\* the next iteration, once the digit at position i is added
next_iteration(rest, i, added, overflow_checks) ==
    IF added.tag # "Ok" THEN added
    ELSE encode_loop(rest, i + 1, added.val, overflow_checks)

encode_loop(rest, i, count, overflow_checks) ==
    IF i >= Len(rest) THEN Ok(count)
    ELSE LET c == rest[i + 1] IN
      IF i = 4
      THEN IF ALLCHARS_find[c] = None THEN Err("Invalid character")
           ELSE checked(u32_add(count, ALLCHARS_find[c] + 1), overflow_checks,
                        "attempt to add with overflow")
      ELSE IF CHARSET_find[c] # None
      THEN LET off == suffix_offset(SubSeq(rest, i + 1, Len(rest)))
           IN  IF off = None THEN Err("Invalid suffix")
               ELSE checked(u32_add(count, off), overflow_checks,
                            "attempt to add with overflow")
      ELSE IF to_digit[c] = None THEN Err("Invalid digit")
      ELSE IF i > 3 THEN Err("N-Number format error")
      ELSE next_iteration(rest, i,
               add_to_count(count, digit_term(i, to_digit[c], overflow_checks),
                            overflow_checks),
               overflow_checks)

\* lines 142-147: the range test on US_BASE + count
range_check(icao) ==
    IF icao.tag # "Ok" THEN icao
    ELSE IF u32_lt(US_MAX, icao.val) THEN Err("Out of US range")
    ELSE Ok(icao.val)

\* lines 90-94: the first character of nnumber that ALLCHARS does not
\* contain (there is one)
first_invalid_char(nnumber) ==
    nnumber[CHOOSE k \in 1..Len(nnumber) :
               /\ ALLCHARS_find[nnumber[k]] = None
               /\ \A j \in 1..(k - 1) : ALLCHARS_find[nnumber[j]] # None]

\* format!("Invalid character: {}", c); the character U+00E9 is written as
\* its token
invalid_character(c) == "Invalid character: " \o c

\* lines 80-147, on the trimmed and upper-cased string
encode_normalised(nnumber, len, overflow_checks) ==
    IF ~starts_with(nnumber, <<"N">>) THEN Err("Must start with N")
    ELSE IF len > 6 THEN Err("N-Number too long (max 6 chars)")
    ELSE IF \E k \in 1..Len(nnumber) : ALLCHARS_find[nnumber[k]] = None
    THEN Err(invalid_character(first_invalid_char(nnumber)))
    ELSE IF len > 3 /\ \E i \in 1..(len - 3) : CHARSET_find[nnumber[i + 1]] # None
    THEN Err("Letters can only appear as suffix")
    ELSE IF len = 1 THEN Ok(US_BASE + 1)
    ELSE range_check(
             add_to_count(US_BASE,
                          encode_loop(SubSeq(nnumber, 2, Len(nnumber)), 0, 1,
                                      overflow_checks),
                          overflow_checks))

\* Convert a US N-Number to ICAO address (u32)
us_n_to_icao_u32(raw, overflow_checks) ==
    encode_normalised(to_ascii_uppercase(trim(raw)),
                      byte_len(to_ascii_uppercase(trim(raw))),
                      overflow_checks)

\* Convert ICAO address (u32) to US N-Number
icao_u32_to_us(icao) ==
    IF ~(US_BASE + 1 <= icao /\ icao <= US_MAX) THEN Err("Not in US allocation")
    ELSE
    LET i == icao - US_BASE - 1
        with_suffix(out, rem) ==
            LET sfx == get_suffix(rem)
            IN  IF sfx.tag # "Ok" THEN sfx ELSE Ok(out \o sfx.val)
        dig1 == i \div BUCKET1_SIZE + 1
        rem1 == i % BUCKET1_SIZE
        out1 == <<"N">> \o to_string(dig1)
        dig2 == (rem1 - SUFFIX_SIZE) \div BUCKET2_SIZE
        rem2 == (rem1 - SUFFIX_SIZE) % BUCKET2_SIZE
        out2 == out1 \o to_string(dig2)
        dig3 == (rem2 - SUFFIX_SIZE) \div BUCKET3_SIZE
        rem3 == (rem2 - SUFFIX_SIZE) % BUCKET3_SIZE
        out3 == out2 \o to_string(dig3)
        dig4 == (rem3 - SUFFIX_SIZE) \div BUCKET4_SIZE
        rem4 == (rem3 - SUFFIX_SIZE) % BUCKET4_SIZE
        out4 == out3 \o to_string(dig4)
    IN  IF rem1 < SUFFIX_SIZE THEN with_suffix(out1, rem1)
        ELSE IF rem2 < SUFFIX_SIZE THEN with_suffix(out2, rem2)
        ELSE IF rem3 < SUFFIX_SIZE THEN with_suffix(out3, rem3)
        ELSE IF rem4 = 0 THEN Ok(out4)
        ELSE IF rem4 - 1 >= Len(ALLCHARS) THEN Err("Invalid last character")
        ELSE Ok(out4 \o <<ALLCHARS[rem4]>>)

\* Result::map(u32_to_arr3)
map_u32_to_arr3(r) == IF r.tag = "Ok" THEN Ok(u32_to_arr3(r.val)) ELSE r

\* registration_to_icao that leaves the prefix test to us_n_to_icao_u32
registration_to_icao_prefix_unchecked(reg, overflow_checks) ==
    map_u32_to_arr3(us_n_to_icao_u32(reg, overflow_checks))

\* registration_to_icao (lines 208-214)
registration_to_icao(reg, overflow_checks) ==
    IF starts_with(reg, <<"N">>)
    THEN map_u32_to_arr3(us_n_to_icao_u32(reg, overflow_checks))
    ELSE Err("Unsupported registration prefix (only US 'N' supported)")

\* icao_to_registration that also turns the first address of the block away
icao_to_registration_first_excluded(icao) ==
    LET icao_u32 == arr3_to_u32(icao)
    IN  IF US_BASE + 1 < icao_u32 /\ icao_u32 <= US_MAX
        THEN icao_u32_to_us(icao_u32)
        ELSE Err("ICAO not in US range")

\* icao_to_registration (lines 216-223)
icao_to_registration(icao) ==
    LET icao_u32 == arr3_to_u32(icao)
    IN  IF US_BASE + 1 <= icao_u32 /\ icao_u32 <= US_MAX
        THEN icao_u32_to_us(icao_u32)
        ELSE Err("ICAO not in US range")

(***************************************************************************)
(* icao.rs                                                                 *)
(***************************************************************************)
\* Option<&'static str>
Some(v) == [tag |-> "Some", val |-> v]
Absent == [tag |-> "None", val |-> ""]

\* ICAO address allocations as <<binary_prefix, iso2_country_code>>, in the
\* order of the source; a prefix is the sequence of its characters.
ICAO_ALLOCATIONS ==
    <<<<<<"0","0","0","0","1","1","0","0","1","0","1","0","0","0">>, "AG">>,
      <<<<"0","1","0","1","0","0","0","0","0","0","0","1","0","0">>, "AL">>,
      <<<<"0","0","0","0","1","0","1","0","1","0","1","0","0","0">>, "BB">>,
      <<<<"0","0","0","0","1","0","1","0","1","0","1","1","0","0">>, "BZ">>,
      <<<<"0","0","0","0","1","0","0","1","0","1","0","0","0","0">>, "BJ">>,
      <<<<"0","1","1","0","1","0","0","0","0","0","0","0","0","0">>, "BT">>,
      <<<<"1","1","1","0","1","0","0","1","0","1","0","0">>, "BO">>,
      <<<<"0","1","0","1","0","0","0","1","0","0","1","1","0","0">>, "BA">>,
      <<<<"0","0","0","0","0","0","1","1","0","0","0","0","0","0">>, "BW">>,
      <<<<"1","0","0","0","1","0","0","1","0","1","0","1","0","0">>, "BN">>,
      <<<<"0","0","0","0","1","0","0","1","1","1","0","0">>, "BF">>,
      <<<<"0","0","0","0","0","0","1","1","0","0","1","0">>, "BI">>,
      <<<<"0","1","1","1","0","0","0","0","1","1","1","0">>, "KH">>,
      <<<<"0","0","0","0","0","0","1","1","0","1","0","0">>, "CM">>,
      <<<<"0","0","0","0","1","0","0","1","0","1","1","0","0","0">>, "CV">>,
      <<<<"0","0","0","0","0","1","1","0","1","1","0","0">>, "CF">>,
      <<<<"0","0","0","0","1","0","0","0","0","1","0","0">>, "TD">>,
      <<<<"1","1","1","0","1","0","0","0","0","0","0","0">>, "CL">>,
      <<<<"0","0","0","0","1","0","1","0","1","1","0","0">>, "CO">>,
      <<<<"0","0","0","0","0","0","1","1","0","1","0","1","0","0">>, "KM">>,
      <<<<"0","0","0","0","0","0","1","1","0","1","1","0">>, "CG">>,
      <<<<"1","0","0","1","0","0","0","0","0","0","0","1","0","0">>, "CK">>,
      <<<<"0","0","0","0","1","0","1","0","1","1","1","0">>, "CR">>,
      <<<<"0","0","0","0","0","0","1","1","1","0","0","0">>, "CI">>,
      <<<<"0","1","0","1","0","0","0","0","0","0","0","1","1","1">>, "HR">>,
      <<<<"0","0","0","0","1","0","1","1","0","0","0","0">>, "CU">>,
      <<<<"0","1","0","0","1","1","0","0","1","0","0","0","0","0">>, "CY">>,
      <<<<"0","1","1","1","0","0","1","0","0">>, "KP">>,
      <<<<"0","0","0","0","1","0","0","0","1","1","0","0">>, "CD">>,
      <<<<"0","0","0","0","1","0","0","1","1","0","0","0","0","0">>, "DJ">>,
      <<<<"0","0","0","0","1","1","0","0","0","1","0","0">>, "DO">>,
      <<<<"1","1","1","0","1","0","0","0","0","1","0","0">>, "EC">>,
      <<<<"0","0","0","0","1","0","1","1","0","0","1","0">>, "SV">>,
      <<<<"0","0","0","0","0","1","0","0","0","0","1","0">>, "GQ">>,
      <<<<"0","0","1","0","0","0","0","0","0","0","1","0","0","0">>, "ER">>,
      <<<<"0","1","0","1","0","0","0","1","0","0","0","1","0","0">>, "EE">>,
      <<<<"0","0","0","0","0","1","0","0","0","0","0","0">>, "ET">>,
      <<<<"1","1","0","0","1","0","0","0","1","0","0","0">>, "FJ">>,
      <<<<"0","0","0","0","0","0","1","1","1","1","1","0">>, "GA">>,
      <<<<"0","0","0","0","1","0","0","1","1","0","1","0">>, "GM">>,
      <<<<"0","1","0","1","0","0","0","1","0","1","0","0","0","0">>, "GE">>,
      <<<<"0","0","0","0","0","1","0","0","0","1","0","0">>, "GH">>,
      <<<<"0","0","0","0","1","1","0","0","1","1","0","0","0","0">>, "GD">>,
      <<<<"0","0","0","0","1","0","1","1","0","1","0","0">>, "GT">>,
      <<<<"0","0","0","0","0","1","0","0","0","1","1","0">>, "GN">>,
      <<<<"0","0","0","0","0","1","0","0","1","0","0","0","0","0">>, "GW">>,
      <<<<"0","0","0","0","1","0","1","1","0","1","1","0">>, "GY">>,
      <<<<"0","0","0","0","1","0","1","1","1","0","0","0">>, "HT">>,
      <<<<"0","0","0","0","1","0","1","1","1","0","1","0">>, "HN">>,
      <<<<"0","1","0","0","1","1","0","0","1","1","0","0">>, "IS">>,
      <<<<"0","1","1","1","0","0","1","1","0">>, "IR">>,
      <<<<"0","1","1","1","0","0","1","0","1">>, "IQ">>,
      <<<<"0","1","0","0","1","1","0","0","1","0","1","0">>, "IE">>,
      <<<<"0","1","1","1","0","0","1","1","1">>, "IL">>,
      <<<<"0","0","0","0","1","0","1","1","1","1","1","0">>, "JM">>,
      <<<<"0","1","1","1","0","1","0","0","0">>, "JO">>,
      <<<<"0","1","1","0","1","0","0","0","0","0","1","1","0","0">>, "KZ">>,
      <<<<"0","0","0","0","0","1","0","0","1","1","0","0">>, "KE">>,
      <<<<"1","1","0","0","1","0","0","0","1","1","1","0","0","0">>, "KI">>,
      <<<<"0","1","1","1","0","0","0","0","0","1","1","0">>, "KW">>,
      <<<<"0","1","1","0","0","0","0","0","0","0","0","1","0","0">>, "KG">>,
      <<<<"0","1","1","1","0","0","0","0","1","0","0","0">>, "LA">>,
      <<<<"0","1","0","1","0","0","0","0","0","0","1","0","1","1">>, "LV">>,
      <<<<"0","1","1","1","0","1","0","0","1">>, "LB">>,
      <<<<"0","0","0","0","0","1","0","0","1","0","1","0","0","0">>, "LS">>,
      <<<<"0","0","0","0","0","1","0","1","0","0","0","0">>, "LR">>,
      <<<<"0","1","0","1","0","0","0","0","0","0","1","1","1","1">>, "LT">>,
      <<<<"0","1","0","0","1","1","0","1","0","0","0","0","0","0">>, "LU">>,
      <<<<"0","0","0","0","0","1","0","1","0","1","0","0">>, "MG">>,
      <<<<"0","0","0","0","0","1","0","1","1","0","0","0">>, "MW">>,
      <<<<"0","1","1","1","0","1","0","1","0">>, "MY">>,
      <<<<"0","0","0","0","0","1","0","1","1","0","1","0","0","0">>, "MV">>,
      <<<<"0","0","0","0","0","1","0","1","1","1","0","0">>, "ML">>,
      <<<<"0","1","0","0","1","1","0","1","0","0","1","0","0","0">>, "MT">>,
      <<<<"1","0","0","1","0","0","0","0","0","0","0","0","0","0">>, "MH">>,
      <<<<"0","0","0","0","0","1","0","1","1","1","1","0","0","0">>, "MR">>,
      <<<<"0","0","0","0","0","1","1","0","0","0","0","0","0","0">>, "MU">>,
      <<<<"0","1","1","0","1","0","0","0","0","0","0","1","0","0">>, "FM">>,
      <<<<"0","1","0","0","1","1","0","1","0","1","0","0","0","0">>, "MC">>,
      <<<<"0","1","1","0","1","0","0","0","0","0","1","0","0","0">>, "MN">>,
      <<<<"0","0","0","0","0","0","0","0","0","1","1","0">>, "MZ">>,
      <<<<"0","1","1","1","0","0","0","0","0","1","0","0">>, "MM">>,
      <<<<"0","0","1","0","0","0","0","0","0","0","0","1","0","0">>, "NA">>,
      <<<<"1","1","0","0","1","0","0","0","1","0","1","0","0","0">>, "NR">>,
      <<<<"0","1","1","1","0","0","0","0","1","0","1","0">>, "NP">>,
      <<<<"0","0","0","0","1","1","0","0","0","0","0","0">>, "NI">>,
      <<<<"0","0","0","0","0","1","1","0","0","0","1","0">>, "NE">>,
      <<<<"0","0","0","0","0","1","1","0","0","1","0","0">>, "NG">>,
      <<<<"0","1","1","1","0","0","0","0","1","1","0","0","0","0">>, "OM">>,
      <<<<"0","1","1","1","0","1","1","0","0">>, "PK">>,
      <<<<"0","1","1","0","1","0","0","0","0","1","0","0","0","0">>, "PW">>,
      <<<<"0","0","0","0","1","1","0","0","0","0","1","0">>, "PA">>,
      <<<<"1","0","0","0","1","0","0","1","1","0","0","0">>, "PG">>,
      <<<<"1","1","1","0","1","0","0","0","1","0","0","0">>, "PY">>,
      <<<<"1","1","1","0","1","0","0","0","1","1","0","0">>, "PE">>,
      <<<<"0","1","1","1","0","1","0","1","1">>, "PH">>,
      <<<<"0","0","0","0","0","1","1","0","1","0","1","0","0","0">>, "QA">>,
      <<<<"0","1","1","1","0","0","0","1","1">>, "KR">>,
      <<<<"0","1","0","1","0","0","0","0","0","1","0","0","1","1">>, "MD">>,
      <<<<"0","0","0","0","0","1","1","0","1","1","1","0">>, "RW">>,
      <<<<"1","1","0","0","1","0","0","0","1","1","0","0","0","0">>, "LC">>,
      <<<<"0","0","0","0","1","0","1","1","1","1","0","0","0","0">>, "VC">>,
      <<<<"1","0","0","1","0","0","0","0","0","0","1","0","0","0">>, "WS">>,
      <<<<"0","1","0","1","0","0","0","0","0","0","0","0","0","0">>, "SM">>,
      <<<<"0","0","0","0","1","0","0","1","1","1","1","0","0","0">>, "ST">>,
      <<<<"0","1","1","1","0","0","0","1","0">>, "SA">>,
      <<<<"0","0","0","0","0","1","1","1","0","0","0","0">>, "SN">>,
      <<<<"0","0","0","0","0","1","1","1","0","1","0","0","0","0">>, "SC">>,
      <<<<"0","0","0","0","0","1","1","1","0","1","1","0","0","0">>, "SL">>,
      <<<<"0","1","1","1","0","1","1","0","1">>, "SG">>,
      <<<<"0","1","0","1","0","0","0","0","0","1","0","1","1","1">>, "SK">>,
      <<<<"0","1","0","1","0","0","0","0","0","1","1","0","1","1">>, "SI">>,
      <<<<"1","0","0","0","1","0","0","1","0","1","1","1","0","0">>, "SB">>,
      <<<<"0","0","0","0","0","1","1","1","1","0","0","0">>, "SO">>,
      <<<<"0","1","1","1","0","1","1","1","0">>, "LK">>,
      <<<<"0","0","0","0","0","1","1","1","1","1","0","0">>, "SD">>,
      <<<<"0","0","0","0","1","1","0","0","1","0","0","0">>, "SR">>,
      <<<<"0","0","0","0","0","1","1","1","1","0","1","0","0","0">>, "SZ">>,
      <<<<"0","1","0","1","0","0","0","1","0","1","0","1","0","0">>, "TJ">>,
      <<<<"0","1","0","1","0","0","0","1","0","0","1","0","0","0">>, "MK">>,
      <<<<"0","0","0","0","1","0","0","0","1","0","0","0">>, "TG">>,
      <<<<"1","1","0","0","1","0","0","0","1","1","0","1","0","0">>, "TO">>,
      <<<<"0","0","0","0","1","1","0","0","0","1","1","0">>, "TT">>,
      <<<<"0","1","1","0","0","0","0","0","0","0","0","1","1","0">>, "TM">>,
      <<<<"0","0","0","0","0","1","1","0","1","0","0","0">>, "UG">>,
      <<<<"1","0","0","0","1","0","0","1","0","1","1","0">>, "AE">>,
      <<<<"0","0","0","0","1","0","0","0","0","0","0","0">>, "TZ">>,
      <<<<"1","1","1","0","1","0","0","1","0","0","0","0">>, "UY">>,
      <<<<"0","1","0","1","0","0","0","0","0","1","1","1","1","1">>, "UZ">>,
      <<<<"1","1","0","0","1","0","0","1","0","0","0","0","0","0">>, "VU">>,
      <<<<"1","0","0","0","1","0","0","1","0","0","0","0">>, "YE">>,
      <<<<"0","0","0","0","1","0","0","0","1","0","1","0">>, "ZM">>,
      <<<<"0","0","0","0","0","0","0","0","0","1","0","0","0","0">>, "ZW">>,
      <<<<"1","0","0","0","1","0","0","1","1","0","0","1","0","0">>, "ZZ">>,
      <<<<"1","1","1","1","0","0","0","0","1","0","0","1","0","0">>, "ZZ">>,
      <<<<"0","1","1","1","0","0","0","0","0","0","0","0">>, "AF">>,
      <<<<"0","1","1","0","0","0","0","0","0","0","0","0","0","0">>, "AM">>,
      <<<<"0","1","1","0","0","0","0","0","0","0","0","0","1","0">>, "AZ">>,
      <<<<"0","0","0","0","1","0","1","0","1","0","0","0">>, "BS">>,
      <<<<"1","0","0","0","1","0","0","1","0","1","0","0">>, "BH">>,
      <<<<"0","1","1","1","0","0","0","0","0","0","1","0">>, "BD">>,
      <<<<"0","1","0","1","0","0","0","1","0","0","0","0","0","0">>, "BY">>,
      <<<<"0","0","0","0","1","0","1","0","0">>, "DZ">>,
      <<<<"0","1","0","0","0","1","0","0","0">>, "AT">>,
      <<<<"0","1","0","0","0","1","0","0","1">>, "BE">>,
      <<<<"0","1","0","0","0","1","0","1","0">>, "BG">>,
      <<<<"0","1","0","0","0","1","0","1","1">>, "DK">>,
      <<<<"0","1","0","0","0","1","1","0","0">>, "FI">>,
      <<<<"0","1","0","0","0","1","1","0","1">>, "GR">>,
      <<<<"0","1","0","0","0","1","1","1","0">>, "HU">>,
      <<<<"0","1","0","0","0","1","1","1","1">>, "NO">>,
      <<<<"1","0","0","0","1","0","1","0","0">>, "ID">>,
      <<<<"0","1","0","0","1","0","0","0","0">>, "NL">>,
      <<<<"0","1","0","0","1","0","0","0","1">>, "PL">>,
      <<<<"0","1","0","0","1","0","0","1","0">>, "PT">>,
      <<<<"0","1","0","0","1","0","0","1","1">>, "CZ">>,
      <<<<"0","1","0","0","1","0","1","0","0">>, "RO">>,
      <<<<"0","1","0","0","1","0","1","0","1">>, "SE">>,
      <<<<"0","1","0","0","1","0","1","1","0">>, "CH">>,
      <<<<"0","1","0","0","1","0","1","1","1">>, "TR">>,
      <<<<"1","1","0","0","1","0","0","0","0">>, "NZ">>,
      <<<<"0","1","0","1","0","0","0","0","1">>, "UA">>,
      <<<<"0","0","0","0","1","1","0","1","0">>, "MX">>,
      <<<<"0","0","0","0","1","1","0","1","1">>, "VE">>,
      <<<<"1","0","0","0","1","0","0","0","0">>, "TH">>,
      <<<<"1","0","0","0","1","0","0","0","1">>, "VN">>,
      <<<<"0","1","0","0","1","1","0","0","0">>, "RS">>,
      <<<<"1","1","1","1","0","0","0","0","0">>, "ZZ">>,
      <<<<"1","1","1","0","0","0">>, "AR">>,
      <<<<"0","1","1","1","1","1">>, "AU">>,
      <<<<"1","1","0","0","0","0">>, "CA">>,
      <<<<"1","1","1","0","0","1">>, "BR">>,
      <<<<"0","0","1","1","1","0">>, "FR">>,
      <<<<"0","0","1","1","1","1">>, "DE">>,
      <<<<"1","0","0","0","0","0">>, "IN">>,
      <<<<"0","0","1","1","0","0">>, "IT">>,
      <<<<"1","0","0","0","0","1">>, "JP">>,
      <<<<"0","0","1","1","0","1">>, "ES">>,
      <<<<"0","1","0","0","0","0">>, "GB">>,
      <<<<"1","0","1","0">>, "US">>,
      <<<<"0","0","0","1">>, "RU">>,
      <<<<"0","0","0","0","0","0","0","0","1">>, "ZA">>,
      <<<<"0","0","0","0","0","0","0","1","0">>, "EG">>,
      <<<<"0","0","0","0","0","0","0","1","1">>, "LY">>,
      <<<<"0","0","0","0","0","0","1","0","0">>, "MA">>,
      <<<<"0","0","0","0","0","0","1","0","1">>, "TN">>,
      <<<<"0","0","0","0","1","0","0","1","0","0","0","0">>, "AO">>>>

\* a byte rendered least significant bit first
fmt_08b_lsb_first(byte) ==
    [i \in 1..8 |-> IF (byte \div (2 ^ (i - 1))) % 2 = 1 THEN "1" ELSE "0"]

\* format!("{:08b}", byte)
fmt_08b(byte) ==
    [i \in 1..8 |-> IF (byte \div (2 ^ (8 - i))) % 2 = 1 THEN "1" ELSE "0"]

\* icao_to_country that treats the sentinel code as no allocation
icao_to_country_sentinel_hidden(icao) ==
    LET binary == fmt_08b(icao[1]) \o fmt_08b(icao[2]) \o fmt_08b(icao[3])
        hits == {k \in 1..Len(ICAO_ALLOCATIONS) :
                    /\ ICAO_ALLOCATIONS[k][2] # "ZZ"
                    /\ starts_with(binary, ICAO_ALLOCATIONS[k][1])}
    IN  IF hits = {} THEN Absent
        ELSE Some(ICAO_ALLOCATIONS[CHOOSE k \in hits : \A j \in hits : k <= j][2])

\* Convert a 24-bit ICAO address to its allocated country's ISO2 code: the
\* code of the first entry, in table order, whose prefix starts the binary
\* string.
icao_to_country(icao) ==
    LET binary == fmt_08b(icao[1]) \o fmt_08b(icao[2]) \o fmt_08b(icao[3])
        hits == {k \in 1..Len(ICAO_ALLOCATIONS) :
                    starts_with(binary, ICAO_ALLOCATIONS[k][1])}
    IN  IF hits = {} THEN Absent
        ELSE Some(ICAO_ALLOCATIONS[CHOOSE k \in hits : \A j \in hits : k <= j][2])

\* icao_u32_to_country without the test of the 8 most significant bits
icao_u32_to_country_unguarded(icao_u32) ==
    icao_to_country(<<(icao_u32 \div 65536) % 256,
                      (icao_u32 \div 256) % 256,
                      icao_u32 % 256>>)

\* Convert a 24-bit ICAO address (as u32) to its allocated country's ISO2
\* code; the shifts act on a value known to be below 2^24.
icao_u32_to_country(icao_u32) ==
    IF u32_lt(16777215, icao_u32) THEN Absent
    ELSE icao_to_country(<<(icao_u32 \div 65536) % 256,
                           (icao_u32 \div 256) % 256,
                           icao_u32 % 256>>)

(***************************************************************************)
(* Inputs.                                                                 *)
(***************************************************************************)
Digits == {DIGITS[i] : i \in 1..Len(DIGITS)}
Letters == {CHARSET[i] : i \in 1..Len(CHARSET)}

\* all strings of exactly n characters of S
StringsOf(S, n) == [1..n -> S]

\* The digits and letters the generated N-Numbers use: the first NumDigits
\* digits and the last one, the first NumLetters letters of CHARSET and the
\* last one.
NumDigits == 4
NumLetters == 4
ModelDigits == {DIGITS[i] : i \in 1..NumDigits} \cup {DIGITS[Len(DIGITS)]}
ModelLetters == {CHARSET[i] : i \in 1..NumLetters} \cup {CHARSET[Len(CHARSET)]}

\* The N-Number domain of the specification, over the model's digits and
\* letters: N, then 0 to 5 characters, digits first, then a trailing run of
\* 0 to 2 letters.
ModelNNumbers ==
    UNION { { <<"N">> \o d \o l : d \in StringsOf(ModelDigits, p[1]),
                                  l \in StringsOf(ModelLetters, p[2]) } :
            p \in {q \in (0..5) \X (0..2) : q[1] + q[2] <= 5} }

\* Strings a caller may pass that need not be N-Numbers: every string of up
\* to MaxShortFuzz characters over an alphabet holding one character of each
\* kind the code tells apart, and every string of up to MaxLongFuzz
\* characters over a smaller one.
MaxShortFuzz == 4
ShortFuzzChars == {"N", "n", "0", "1", "A", "a", "I", " ", NON_ASCII}
MaxLongFuzz == 7
LongFuzzChars == {"N", "1", " "}
FuzzStrings ==
    UNION {StringsOf(ShortFuzzChars, n) : n \in 0..MaxShortFuzz}
      \cup UNION {StringsOf(LongFuzzChars, n) : n \in 0..MaxLongFuzz}

\* The registrations of the repository's tests.
TestRegistrations ==
    { <<"N","1">>, <<"N","9","9","9","9","9">>, <<"N","8","4","3","7","D">>,
      <<"N","4","5","6","T","S">>, <<"G","-","A","B","C","D">> }

\* The three big-endian bytes of a 24-bit address.
BigEndian(a) == <<a \div 65536, (a \div 256) % 256, a % 256>>

\* The addresses passed to the decoder: every address of the registrations
\* with first digit 1, Window addresses on each side of every change of the
\* first digit and before the end of the block, Margin addresses on each
\* side of the block, and the addresses of the repository's tests.
Window == 700
Margin == 50
TestAddresses == {0, 4660, 11243087, 16777215}
DecodeAddresses ==
    TestAddresses
      \cup (US_BASE + 1 - Margin)..(US_BASE + BUCKET1_SIZE)
      \cup (US_MAX - Window)..(US_MAX + Margin)
      \cup UNION { (US_BASE + 1 + d * BUCKET1_SIZE - Window)
                     ..(US_BASE + d * BUCKET1_SIZE + Window) : d \in 1..8 }

(***************************************************************************)
(* The encoder as a caller sees it: the caller passes a string to          *)
(* registration_to_icao, and may pass the address it got back to           *)
(* icao_to_registration.                                                   *)
(***************************************************************************)
InitEncode ==
    /\ fn = "registration_to_icao"
    /\ input \in ModelNNumbers \cup FuzzStrings \cup TestRegistrations
    /\ output = NotCalled
    /\ back = NotCalled
    /\ ParserUnused

\* the call, in a build with or without overflow checks
CallRegistrationToIcao ==
    /\ fn = "registration_to_icao"
    /\ output.tag = "NotCalled"
    /\ \E overflow_checks \in BOOLEAN :
          output' = registration_to_icao(input, overflow_checks)
    /\ UNCHANGED <<fn, input, back>>
    /\ UNCHANGED parser_vars

DecodeBack ==
    /\ fn = "registration_to_icao"
    /\ output.tag = "Ok"
    /\ back.tag = "NotCalled"
    /\ back' = icao_to_registration(output.val)
    /\ UNCHANGED <<fn, input, output>>
    /\ UNCHANGED parser_vars

NextEncode == CallRegistrationToIcao \/ DecodeBack

SpecEncode == InitEncode /\ [][NextEncode]_vars

(***************************************************************************)
(* The decoder as a caller sees it: the caller passes three bytes to       *)
(* icao_to_registration, and may pass the string it got back to            *)
(* registration_to_icao.                                                   *)
(***************************************************************************)
InitDecode ==
    /\ fn = "icao_to_registration"
    /\ \E a \in DecodeAddresses : input = BigEndian(a)
    /\ output = NotCalled
    /\ back = NotCalled
    /\ ParserUnused

CallIcaoToRegistration ==
    /\ fn = "icao_to_registration"
    /\ output.tag = "NotCalled"
    /\ output' = icao_to_registration(input)
    /\ UNCHANGED <<fn, input, back>>
    /\ UNCHANGED parser_vars

EncodeBack ==
    /\ fn = "icao_to_registration"
    /\ output.tag = "Ok"
    /\ back.tag = "NotCalled"
    /\ \E overflow_checks \in BOOLEAN :
          back' = registration_to_icao(output.val, overflow_checks)
    /\ UNCHANGED <<fn, input, output>>
    /\ UNCHANGED parser_vars

NextDecode == CallIcaoToRegistration \/ EncodeBack

SpecDecode == InitDecode /\ [][NextDecode]_vars

(***************************************************************************)
(* The country lookup: each call takes one address.                        *)
(***************************************************************************)
\* The addresses passed to the lookups: every value of the TopBits most
\* significant bits, with the remaining bits all 0 or all 1, so that every
\* value of the 14 leading bits (the longest prefix of the table) occurs.
TopBits == 13
LowSize == 2 ^ (24 - TopBits)
LowSamples == {0, LowSize - 1}
CountryAddress(top, low) == top * LowSize + low

\* the addresses the tests of icao.rs look up: 0xAB8E4F, 0xA00001, 0x4C0000,
\* 0xC00001, 0x400000, 0x100000, 0x0CA000, 0xFFFFFF, 0x000000
TestCountryAddresses ==
    {11243087, 10485761, 4980736, 12582913, 4194304, 1048576, 827392,
     16777215, 0}

\* u32 values with some of the 8 most significant bits set (from bit 31 on
\* as negative numbers): 0x01000000, 0x01AB8E4F, 0x12345678, 0x7FFFFFFF,
\* 0x80000000, 0xA0000000, 0xFFFFFFFF
Over24Bits ==
    {16777216, 28020303, 305419896, MaxI32, MinI32, MinI32 + 536870912, -1}

InitCountry ==
    /\ \/ /\ fn = "icao_to_country"
          /\ \/ \E top \in 0..(2 ^ TopBits - 1), low \in LowSamples :
                   input = BigEndian(CountryAddress(top, low))
             \/ \E a \in TestCountryAddresses : input = BigEndian(a)
       \/ /\ fn = "icao_u32_to_country"
          /\ \/ \E top \in 0..(2 ^ TopBits - 1), low \in LowSamples :
                   input = CountryAddress(top, low)
             \/ input \in TestCountryAddresses \cup Over24Bits
    /\ output = NotCalled
    /\ back = NotCalled
    /\ ParserUnused

CallIcaoToCountry ==
    /\ fn = "icao_to_country"
    /\ output = NotCalled
    /\ output' = icao_to_country(input)
    /\ UNCHANGED <<fn, input, back>>
    /\ UNCHANGED parser_vars

CallIcaoU32ToCountry ==
    /\ fn = "icao_u32_to_country"
    /\ output = NotCalled
    /\ output' = icao_u32_to_country(input)
    /\ UNCHANGED <<fn, input, back>>
    /\ UNCHANGED parser_vars

\* the array version on the three big-endian bytes of the same value, as
\* test_u32_equivalence_with_array_version calls it
CallArrayVersion ==
    /\ fn = "icao_u32_to_country"
    /\ output # NotCalled
    /\ back = NotCalled
    /\ input \in 0..16777215
    /\ back' = icao_to_country(<<(input \div 65536) % 256,
                                 (input \div 256) % 256,
                                 input % 256>>)
    /\ UNCHANGED <<fn, input, output>>
    /\ UNCHANGED parser_vars

NextCountry == CallIcaoToCountry \/ CallIcaoU32ToCountry \/ CallArrayVersion

SpecCountry == InitCountry /\ [][NextCountry]_vars

(***************************************************************************)
(* The suffix numbering: get_suffix on an offset, suffix_offset on a       *)
(* suffix string, and each on the result of the other.                     *)
(***************************************************************************)
\* the offsets of the suffixes: 0 .. SUFFIX_SIZE - 1
SuffixOffsets == 0..(SUFFIX_SIZE - 1)

\* the suffix strings: empty, one letter, two letters
SuffixStrings == UNION {StringsOf(Letters, n) : n \in 0..2}

\* Option<u32> of suffix_offset
some_u32(r) == IF r = None THEN Absent ELSE Some(r)

InitSuffix ==
    /\ \/ fn = "get_suffix" /\ input \in SuffixOffsets
       \/ fn = "suffix_offset" /\ input \in SuffixStrings
    /\ output = NotCalled
    /\ back = NotCalled
    /\ ParserUnused

CallGetSuffix ==
    /\ fn = "get_suffix"
    /\ output = NotCalled
    /\ output' = get_suffix(input)
    /\ UNCHANGED <<fn, input, back>>
    /\ UNCHANGED parser_vars

CallSuffixOffset ==
    /\ fn = "suffix_offset"
    /\ output = NotCalled
    /\ output' = some_u32(suffix_offset(input))
    /\ UNCHANGED <<fn, input, back>>
    /\ UNCHANGED parser_vars

SuffixOffsetBack ==
    /\ fn = "get_suffix"
    /\ output.tag = "Ok"
    /\ back = NotCalled
    /\ back' = some_u32(suffix_offset(output.val))
    /\ UNCHANGED <<fn, input, output>>
    /\ UNCHANGED parser_vars

GetSuffixBack ==
    /\ fn = "suffix_offset"
    /\ output.tag = "Some"
    /\ back = NotCalled
    /\ back' = get_suffix(output.val)
    /\ UNCHANGED <<fn, input, output>>
    /\ UNCHANGED parser_vars

NextSuffix ==
    CallGetSuffix \/ CallSuffixOffset \/ SuffixOffsetBack \/ GetSuffixBack

SpecSuffix == InitSuffix /\ [][NextSuffix]_vars

(***************************************************************************)
(* src/src/lib.rs: the Parser.  The reference dataset is the value DATA    *)
(* holds once it is built; the two CSV files it is built from are data of  *)
(* the build, so the model draws DATA from a family of small datasets.  A  *)
(* dataset is a sequence of EntityData records; entity_result is the       *)
(* entity a record stands for.  An index into DATA counts from 0, as in    *)
(* the code.                                                               *)
(*                                                                         *)
(* A pattern is written in the fragment of the regex syntax the model      *)
(* needs: "^" followed by literal characters matches the strings that      *)
(* start with the literal, and a pattern that opens a group it never       *)
(* closes is one Regex::new rejects.                                       *)
(***************************************************************************)
\* static DATA
DATA == data

\* DATA[idx]
DATA_at(idx) == DATA[idx + 1]

\* Regex::new(regex_str)
Regex_new(regex_str) ==
    IF regex_str # <<>> /\ regex_str[1] = "^" THEN Ok(regex_str)
    ELSE Err("regex parse error")

\* Regex::is_match of a compiled "^literal"
is_match(regex, text) == starts_with(text, Tail(regex))

\* str::is_char_boundary(n): n is 0, the byte length, or the byte offset at
\* which a character starts
is_char_boundary(s, n) == \E k \in 0..Len(s) : byte_len(SubSeq(s, 1, k)) = n

\* &s[0..n] for an n on a character boundary
slice_to(s, n) ==
    SubSeq(s, 1, CHOOSE k \in 0..Len(s) : byte_len(SubSeq(s, 1, k)) = n)

RECURSIVE flatten(_)
flatten(ss) == IF ss = <<>> THEN <<>> ELSE Head(ss) \o flatten(Tail(ss))

\* the <<key, index>> pairs the loops over DATA and a list of a record
\* produce, in the order the loops produce them
callsign_entries ==
    flatten([i \in 1..Len(DATA) |->
               [j \in 1..Len(DATA[i].callsigns) |->
                  <<DATA[i].callsigns[j], i - 1>>]])

icao_entries ==
    flatten([i \in 1..Len(DATA) |->
               [j \in 1..Len(DATA[i].icao24bit_prefixes) |->
                  <<DATA[i].icao24bit_prefixes[j], i - 1>>]])

\* the indices pushed for one key, in order
indices_of(entries, key) ==
    LET HasKey(e) == e[1] = key
        sel == SelectSeq(entries, HasKey)
    IN  [n \in 1..Len(sel) |-> sel[n][2]]

\* static CALLSIGNS_MAP: callsign -> the indices pushed for it
CALLSIGNS_MAP ==
    [key \in {callsign_entries[n][1] : n \in 1..Len(callsign_entries)} |->
        indices_of(callsign_entries, key)]

\* map.insert of the same key again replaces the index stored before
last_of(indices) == indices[Len(indices)]

\* static ICAO_MAP: prefix -> the index inserted last for it
ICAO_MAP ==
    [key \in {icao_entries[n][1] : n \in 1..Len(icao_entries)} |->
        last_of(indices_of(icao_entries, key))]

\* Iterator::min / Iterator::max of the key lengths, unwrap_or(0)
min_or_0(S) == IF S = {} THEN 0 ELSE CHOOSE m \in S : \A n \in S : m <= n
max_or_0(S) == IF S = {} THEN 0 ELSE CHOOSE m \in S : \A n \in S : m >= n

\* static MIN_CALLSIGN_LEN, MAX_CALLSIGN_LEN: byte lengths of the keys
MIN_CALLSIGN_LEN == min_or_0({byte_len(k) : k \in DOMAIN CALLSIGNS_MAP})
MAX_CALLSIGN_LEN == max_or_0({byte_len(k) : k \in DOMAIN CALLSIGNS_MAP})

\* HashMap::get(key), the indices as a sequence (empty when the key is
\* absent)
CALLSIGNS_MAP_get(key) ==
    IF key \in DOMAIN CALLSIGNS_MAP THEN CALLSIGNS_MAP[key] ELSE <<>>

\* the candidates one prefix length contributes: none when the input is
\* shorter, else the indices stored for &input[0..callsign_len]
candidates_of_len(text, callsign_len) ==
    IF byte_len(text) >= callsign_len
    THEN CALLSIGNS_MAP_get(slice_to(text, callsign_len))
    ELSE <<>>

\* the prefix lengths at which &input[0..callsign_len] is taken
sliced_lens(text) ==
    {l \in MIN_CALLSIGN_LEN..MAX_CALLSIGN_LEN : byte_len(text) >= l}

\* the gathering loop of parse_registration: datasets, as indices into DATA
gather(text) ==
    flatten([n \in 1..(MAX_CALLSIGN_LEN - MIN_CALLSIGN_LEN + 1) |->
               candidates_of_len(text, MIN_CALLSIGN_LEN + n - 1)])

\* the pattern parse_registration selects for a record
selected_regex(rec, strict) ==
    IF strict THEN rec.strict_regex ELSE rec.regex

\* if let Ok(regex) = Regex::new(regex_str) { if regex.is_match(input) ..
pattern_matches(rec, text, strict) ==
    /\ Regex_new(selected_regex(rec, strict)).tag = "Ok"
    /\ is_match(selected_regex(rec, strict), text)

\* the candidates pushed into matches_by_priority, in candidate order
matching_candidates(datasets, text, strict) ==
    LET Matches(idx) == pattern_matches(DATA_at(idx), text, strict)
    IN  SelectSeq(datasets, Matches)

\* matches_by_priority.keys().max()
max_priority(matched) ==
    max_or_0({DATA_at(matched[n]).priority : n \in 1..Len(matched)})

\* matches_by_priority.get(&max_priority).cloned()
priority_group(matched, priority) ==
    LET InGroup(idx) == DATA_at(idx).priority = priority
    IN  IF matched = <<>> THEN Absent
        ELSE Some(SelectSeq(matched, InGroup))

\* the rest of parse_registration, once the candidates are gathered
select_matches(datasets, text, strict) ==
    IF datasets = <<>> THEN Absent
    ELSE priority_group(matching_candidates(datasets, text, strict),
                        max_priority(matching_candidates(datasets, text,
                                                         strict)))

\* parse_registration(input, strict): Some(indices), Absent, or the panic of
\* a slice that ends inside a character
parse_registration(text, strict) ==
    IF \E l \in sliced_lens(text) : ~is_char_boundary(text, l)
    THEN Panic("byte index is not a char boundary")
    ELSE select_matches(gather(text), text, strict)

\* Regex ^[0-9A-F]{6}$
HEX_DIGITS == <<"0", "1", "2", "3", "4", "5", "6", "7", "8", "9",
                "A", "B", "C", "D", "E", "F">>
is_hex6(text) ==
    /\ Len(text) = 6
    /\ \A i \in 1..6 : \E h \in 1..16 : text[i] = HEX_DIGITS[h]

\* the hits of the loop of parse_icao24bit, as indices into DATA
icao_hits(text) ==
    LET prefixes == [i \in 1..byte_len(text) |-> slice_to(text, i)]
        IsKey(p) == p \in DOMAIN ICAO_MAP
        hits == SelectSeq(prefixes, IsKey)
    IN  [n \in 1..Len(hits) |-> ICAO_MAP[hits[n]]]

some_unless_empty(matches) ==
    IF matches = <<>> THEN Absent ELSE Some(matches)

\* parse_icao24bit without the format test of strict mode
parse_icao24bit_unchecked(text, strict) ==
    IF \E i \in 1..byte_len(text) : ~is_char_boundary(text, i)
    THEN Panic("byte index is not a char boundary")
    ELSE some_unless_empty(icao_hits(text))

\* parse_icao24bit(input, strict)
parse_icao24bit(text, strict) ==
    IF strict /\ ~is_hex6(text) THEN Absent
    ELSE parse_icao24bit_unchecked(text, strict)

\* matches.last() in place of matches.first()
last_entity(matches) ==
    IF matches.tag = "Some"
    THEN Some(DATA_at(matches.val[Len(matches.val)]).entity_result)
    ELSE matches

\* matches.first().map(|data| data.entity_result.clone())
first_entity(matches) ==
    IF matches.tag = "Some"
    THEN Some(DATA_at(matches.val[1]).entity_result)
    ELSE matches

\* Parser::parse(input, strict, icao24bit)
parse(text, strict, icao24bit) ==
    IF icao24bit THEN first_entity(parse_icao24bit(text, strict))
    ELSE first_entity(parse_registration(text, strict))

\* Parser::parse_simple(input)
parse_simple(text) == parse(text, FALSE, FALSE)

(***************************************************************************)
(* The Parser as a caller sees it: one call of parse or parse_simple over  *)
(* a dataset.  Callsign mode reads callsigns, priority and the patterns of *)
(* a record, IcaoAddress mode its icao24bit_prefixes, so the datasets of   *)
(* each mode vary the fields the mode reads.                               *)
(***************************************************************************)
MaxRecords == 2
MaxPriority == 1

\* the entity of the record at each position of a dataset
ENTITIES == <<"Afghanistan", "Albania", "Algeria", "Andorra">>

\* patterns: one Regex::new rejects, one that matches every input, one
\* that matches the inputs starting with AB
Regexes == {<<"(">>, <<"^">>, <<"^", "A", "B">>}

CallsignLists ==
    {<<<<"A">>>>, <<<<"A", "B">>>>, <<<<"A">>, <<"A", "B">>>>,
     <<<<NON_ASCII>>>>}

IcaoPrefixLists ==
    {<<>>, <<<<"A">>>>, <<<<"A", "B">>>>, <<<<"A">>, <<"A", "B">>>>,
     <<<<"A", "B", "A">>>>}

CallsignRecords ==
    [priority : 0..MaxPriority, callsigns : CallsignLists,
     regex : Regexes, strict_regex : Regexes, icao24bit_prefixes : {<<>>}]

IcaoRecords ==
    [priority : {0}, callsigns : {<<>>}, regex : {<<"^">>},
     strict_regex : {<<"^">>}, icao24bit_prefixes : IcaoPrefixLists]

\* the datasets of at most MaxRecords records drawn from a set of records
with_entity(rec, i) ==
    [entity_result |-> ENTITIES[i], priority |-> rec.priority,
     callsigns |-> rec.callsigns, regex |-> rec.regex,
     strict_regex |-> rec.strict_regex,
     icao24bit_prefixes |-> rec.icao24bit_prefixes]

Datasets(Records) ==
    {[i \in 1..Len(d) |-> with_entity(d[i], i)] :
        d \in UNION {[1..n -> Records] : n \in 0..MaxRecords}}

\* the inputs: ASCII strings around the keys, strings with a two-byte
\* character, six hexadecimal digits, six characters that are not
ParseInputs ==
    {<<>>, <<"A">>, <<"B">>, <<"A", "B">>, <<"A", "B", "A">>, <<"B", "A">>,
     <<NON_ASCII>>, <<"A", NON_ASCII>>, <<"A", "B", NON_ASCII>>,
     <<NON_ASCII, "A">>,
     <<"A", "B", "A", "0", "1", "2">>, <<"A", "B", "A", "0", "1", "G">>}

LazyUnused == cells = <<>> /\ threads = <<>>

\* callsign mode: parse with icao24bit false, and parse_simple
InitParseCallsign ==
    /\ \/ /\ fn = "parse"
          /\ input \in [text : ParseInputs, strict : BOOLEAN,
                         icao24bit : {FALSE}]
       \/ /\ fn = "parse_simple"
          /\ input \in ParseInputs
    /\ data \in Datasets(CallsignRecords)
    /\ output = NotCalled
    /\ back = NotCalled
    /\ LazyUnused

\* IcaoAddress mode: parse with icao24bit true
InitParseIcao ==
    /\ fn = "parse"
    /\ input \in [text : ParseInputs, strict : BOOLEAN, icao24bit : {TRUE}]
    /\ data \in Datasets(IcaoRecords)
    /\ output = NotCalled
    /\ back = NotCalled
    /\ LazyUnused

InitParse == InitParseCallsign \/ InitParseIcao

CallParse ==
    /\ fn = "parse"
    /\ LazyUnused
    /\ output = NotCalled
    /\ output' = parse(input.text, input.strict, input.icao24bit)
    /\ UNCHANGED <<fn, input, back>>
    /\ UNCHANGED parser_vars

CallParseSimple ==
    /\ fn = "parse_simple"
    /\ LazyUnused
    /\ output = NotCalled
    /\ output' = parse_simple(input)
    /\ UNCHANGED <<fn, input, back>>
    /\ UNCHANGED parser_vars

NextParse == CallParse \/ CallParseSimple

SpecParse == InitParse /\ [][NextParse]_vars

\* the calls in IcaoAddress mode alone
NextParseIcao == CallParse
SpecParseIcao == InitParseIcao /\ [][NextParseIcao]_vars

(***************************************************************************)
(* The statics of lib.rs under concurrent first use.  Each static is a     *)
(* once_cell::sync::Lazy: a cell that is Incomplete until a thread         *)
(* dereferences it, Running while that thread runs its initialiser, and    *)
(* Complete once the initialiser's result is stored.  A thread that        *)
(* dereferences a Running cell waits until it is Complete.  An            *)
(* initialiser dereferences other cells itself: CALLSIGNS_MAP and ICAO_MAP *)
(* read DATA, MIN_CALLSIGN_LEN and MAX_CALLSIGN_LEN read CALLSIGNS_MAP.    *)
(* A thread makes calls of Parser::parse, one after the other; a call      *)
(* dereferences cells before its loop and in each iteration of its loop.   *)
(***************************************************************************)
NumThreads == 2

Threads == 1..NumThreads

LAZY_CELLS ==
    {"DATA", "CALLSIGNS_MAP", "ICAO_MAP", "MIN_CALLSIGN_LEN",
     "MAX_CALLSIGN_LEN"}

\* the cells the initialiser of a cell dereferences, in order
derefs_of_init(cell) ==
    CASE cell = "DATA" -> <<>>
      [] cell = "CALLSIGNS_MAP" -> <<"DATA">>
      [] cell = "ICAO_MAP" -> <<"DATA">>
      [] cell = "MIN_CALLSIGN_LEN" -> <<"CALLSIGNS_MAP">>
      [] cell = "MAX_CALLSIGN_LEN" -> <<"CALLSIGNS_MAP">>

\* where a call starts: parse_registration at the first end of
\* *MIN_CALLSIGN_LEN..=*MAX_CALLSIGN_LEN, parse_icao24bit at its loop (or
\* at its return, which the head of the loop stands for as well)
first_pc(icao24bit) == IF icao24bit THEN "loop" ELSE "MIN_CALLSIGN_LEN"

\* the index a loop iteration looks the prefix up in
map_of(icao24bit) == IF icao24bit THEN "ICAO_MAP" ELSE "CALLSIGNS_MAP"

\* where a call is once the cell it dereferenced has handed out its value:
\* after the two ends of the range at the head of the loop, after the
\* index at the result of the lookup, after DATA at the next index of the
\* list (parse_registration) or at the next iteration (parse_icao24bit)
pc_after_deref(pc, icao24bit) ==
    CASE pc = "MIN_CALLSIGN_LEN" -> "MAX_CALLSIGN_LEN"
      [] pc = "MAX_CALLSIGN_LEN" -> "loop"
      [] pc = "CALLSIGNS_MAP" -> "found"
      [] pc = "ICAO_MAP" -> "found"
      [] pc = "DATA" -> IF icao24bit THEN "loop" ELSE "found"

\* OnceCell: the value is handed out while the initialiser still runs
is_initialized_or_running(cell) == cells[cell].state # "Incomplete"

\* OnceCell::is_initialized: the state a dereference tests before it hands
\* out the value
is_initialized(cell) == cells[cell].state = "Complete"

\* what a thread does next: dereference a cell (for the initialiser it is
\* in, or else for its call), store the result of the initialiser it is in,
\* or, in its call and outside every initialiser, be "idle" between calls,
\* at the head of the "loop", or at a lookup's result ("found")
next_step(th) ==
    IF th.stack # <<>>
    THEN IF Head(th.stack).pending # <<>>
         THEN Head(Head(th.stack).pending)
         ELSE "store"
    ELSE th.pc

\* the thread once the dereference it was at has handed out value
after_deref(th, value) ==
    IF th.stack # <<>>
    THEN [th EXCEPT !.seen = @ \cup {value},
                    !.stack = <<[cell |-> Head(@).cell,
                                 pending |-> Tail(Head(@).pending)]>>
                              \o Tail(@)]
    ELSE [th EXCEPT !.seen = @ \cup {value},
                    !.pc = pc_after_deref(@, th.icao24bit)]

\* the thread once the initialiser on top of its stack has returned
after_init(th) == after_deref([th EXCEPT !.stack = Tail(@)], "built")

InitLazy ==
    /\ fn = "parse"
    /\ input = <<>>
    /\ output = NotCalled
    /\ back = NotCalled
    /\ data = <<>>
    /\ cells = [c \in LAZY_CELLS |->
                  [state |-> "Incomplete", value |-> "unset", by |-> 0,
                   inits |-> 0, stores |-> 0]]
    /\ threads = [t \in Threads |->
                    [pc |-> "idle", icao24bit |-> FALSE, stack |-> <<>>,
                     seen |-> {}]]

\* a thread calls Parser::parse, in either mode
CallParseOnThread(t) ==
    /\ t \in DOMAIN threads
    /\ next_step(threads[t]) = "idle"
    /\ \E icao24bit \in BOOLEAN :
          threads' = [threads EXCEPT ![t].icao24bit = icao24bit,
                                     ![t].pc = first_pc(icao24bit)]
    /\ UNCHANGED <<fn, input, output, back, data, cells>>

\* the loop of the call is over, or the call returns or aborts before or
\* inside it: the thread is between calls again
ReturnFromParse(t) ==
    /\ t \in DOMAIN threads
    /\ next_step(threads[t]) = "loop"
    /\ threads' = [threads EXCEPT ![t].pc = "idle"]
    /\ UNCHANGED <<fn, input, output, back, data, cells>>

\* the next iteration of the loop: CALLSIGNS_MAP.get(prefix) or
\* ICAO_MAP.get(prefix)
NextLookup(t) ==
    /\ t \in DOMAIN threads
    /\ next_step(threads[t]) = "loop"
    /\ threads' = [threads EXCEPT ![t].pc = map_of(threads[t].icao24bit)]
    /\ UNCHANGED <<fn, input, output, back, data, cells>>

\* the lookup hit, or its list holds one more index: DATA[idx]
NextCandidate(t) ==
    /\ t \in DOMAIN threads
    /\ next_step(threads[t]) = "found"
    /\ threads' = [threads EXCEPT ![t].pc = "DATA"]
    /\ UNCHANGED <<fn, input, output, back, data, cells>>

\* the lookup missed, or its list is exhausted: back to the head of the
\* loop
EndLookup(t) ==
    /\ t \in DOMAIN threads
    /\ next_step(threads[t]) = "found"
    /\ threads' = [threads EXCEPT ![t].pc = "loop"]
    /\ UNCHANGED <<fn, input, output, back, data, cells>>

\* Deref of a cell that is initialised: the value is handed out
DerefInitialized(t) ==
    /\ t \in DOMAIN threads
    /\ next_step(threads[t]) \in LAZY_CELLS
    /\ is_initialized(next_step(threads[t]))
    /\ threads' = [threads EXCEPT
                     ![t] = after_deref(@, cells[next_step(@)].value)]
    /\ UNCHANGED <<fn, input, output, back, data, cells>>

\* Deref of an Incomplete cell: the thread takes the cell and enters its
\* initialiser
DerefIncomplete(t) ==
    /\ t \in DOMAIN threads
    /\ next_step(threads[t]) \in LAZY_CELLS
    /\ cells[next_step(threads[t])].state = "Incomplete"
    /\ cells' = [cells EXCEPT ![next_step(threads[t])] =
                   [state |-> "Running", value |-> "partial", by |-> t,
                    inits |-> @.inits + 1, stores |-> @.stores]]
    /\ threads' = [threads EXCEPT ![t].stack =
                     <<[cell |-> next_step(threads[t]),
                        pending |-> derefs_of_init(next_step(threads[t]))]>>
                     \o @]
    /\ UNCHANGED <<fn, input, output, back, data>>

\* the initialiser returns: its result is stored, the cell is Complete, and
\* the dereference that started it hands out the value
StoreResult(t) ==
    /\ t \in DOMAIN threads
    /\ next_step(threads[t]) = "store"
    /\ cells' = [cells EXCEPT ![Head(threads[t].stack).cell] =
                   [state |-> "Complete", value |-> "built", by |-> @.by,
                    inits |-> @.inits, stores |-> @.stores + 1]]
    /\ threads' = [threads EXCEPT ![t] = after_init(@)]
    /\ UNCHANGED <<fn, input, output, back, data>>

NextLazy ==
    \E t \in Threads :
        \/ CallParseOnThread(t)
        \/ ReturnFromParse(t)
        \/ NextLookup(t)
        \/ NextCandidate(t)
        \/ EndLookup(t)
        \/ DerefInitialized(t)
        \/ DerefIncomplete(t)
        \/ StoreResult(t)

SpecLazy == InitLazy /\ [][NextLazy]_vars

(***************************************************************************)
(* The library as a whole: one call of any of its functions.               *)
(***************************************************************************)
Init ==
    InitEncode \/ InitDecode \/ InitCountry \/ InitSuffix \/ InitParse
    \/ InitLazy
Next ==
    NextEncode \/ NextDecode \/ NextCountry \/ NextSuffix \/ NextParse
    \/ NextLazy
Spec == Init /\ [][Next]_vars

(***************************************************************************)
(* The claims about the codec.                                             *)
(***************************************************************************)
\* the 24-bit address three big-endian bytes stand for
AddressOf(b) == b[1] * 65536 + b[2] * 256 + b[3]

InUSBlock(a) == a \in (US_BASE + 1)..US_MAX

\* the call has returned (or aborted)
Called == output.tag # "NotCalled"
CalledBack == back.tag # "NotCalled"

\* C1: for every address a of the US block, icao_to_registration succeeds on
\* the bytes of a with some string s, and registration_to_icao succeeds on s
\* and returns exactly the bytes of a.
C1_EncodeAfterDecode ==
    (fn = "icao_to_registration" /\ InUSBlock(AddressOf(input))) =>
        /\ Called => output.tag = "Ok"
        /\ CalledBack => (back.tag = "Ok" /\ back.val = input)

C1_Witness ==
    /\ fn = "icao_to_registration"
    /\ InUSBlock(AddressOf(input))
    /\ output.tag = "Ok" /\ Len(output.val) = 6 /\ output.val[6] \in Letters
    /\ back.tag = "Ok" /\ back.val = input

\* The N-Number domain as the specification words it: N, then 0 to 5
\* characters that are digits or letters of the 24-letter alphabet, the
\* letters only as a trailing run of 1 or 2.
InSpecDomain(s) ==
    /\ Len(s) \in 1..6
    /\ s[1] = "N"
    /\ \E k \in 0..2 :
          /\ k <= Len(s) - 1
          /\ \A i \in 2..(Len(s) - k) : s[i] \in Digits
          /\ \A i \in (Len(s) - k + 1)..Len(s) : s[i] \in Letters

\* The domain on which the round trip holds: the first character after the
\* N is a digit 1-9.
InRoundTripDomain(s) ==
    /\ InSpecDomain(s)
    /\ Len(s) >= 2
    /\ s[2] \in Digits \ {"0"}

\* C2, as claimed: for every N-Number s of the specification's domain,
\* registration_to_icao succeeds and icao_to_registration of its result
\* returns exactly s.
C2_DecodeAfterEncode_Claimed ==
    (fn = "registration_to_icao" /\ InSpecDomain(input)) =>
        /\ Called => output.tag = "Ok"
        /\ CalledBack => (back.tag = "Ok" /\ back.val = input)

\* C2, amended: the same for every N-Number of that domain whose first
\* character after the N is a digit 1-9.
C2_DecodeAfterEncode ==
    (fn = "registration_to_icao" /\ InRoundTripDomain(input)) =>
        /\ Called => output.tag = "Ok"
        /\ CalledBack => (back.tag = "Ok" /\ back.val = input)

C2_Witness ==
    /\ fn = "registration_to_icao"
    /\ InRoundTripDomain(input)
    /\ Len(input) = 6 /\ input[5] \in Letters
    /\ back.tag = "Ok" /\ back.val = input

\* C3: the codec maps the boundary literals in both directions:
\* "N1" <-> 0xA00001, "N99999" <-> 0xADF7C7, "N8437D" <-> 0xAB8E4F.
BoundaryLiterals ==
    { [reg |-> <<"N","1">>, addr |-> <<160, 0, 1>>],
      [reg |-> <<"N","9","9","9","9","9">>, addr |-> <<173, 247, 199>>],
      [reg |-> <<"N","8","4","3","7","D">>, addr |-> <<171, 142, 79>>] }

C3_BoundaryLiterals ==
    \A p \in BoundaryLiterals :
        /\ (fn = "registration_to_icao" /\ input = p.reg) =>
              /\ Called => (output.tag = "Ok" /\ output.val = p.addr)
              /\ CalledBack => (back.tag = "Ok" /\ back.val = p.reg)
        /\ (fn = "icao_to_registration" /\ input = p.addr) =>
              /\ Called => (output.tag = "Ok" /\ output.val = p.reg)
              /\ CalledBack => (back.tag = "Ok" /\ back.val = p.addr)

C3_Witness ==
    /\ fn = "registration_to_icao"
    /\ input = <<"N","8","4","3","7","D">>
    /\ output.tag = "Ok" /\ output.val = <<171, 142, 79>>
    /\ back.tag = "Ok" /\ back.val = input

\* C4: whenever registration_to_icao returns success, the returned address
\* lies in the US block [0xA00001, 0xADF7C7].
C4_EncodedAddressInUSBlock ==
    (fn = "registration_to_icao" /\ output.tag = "Ok") =>
        InUSBlock(AddressOf(output.val))

\* C5: for every input string registration_to_icao returns an address or a
\* failure value: no step of the encoder aborts the process.
C5_EncoderNeverAborts ==
    fn = "registration_to_icao" => output.tag \in {"NotCalled", "Ok", "Err"}

\* C6: icao_to_registration returns a failure for every address outside
\* (0xA00000, 0xADF7C7] and a string for every address inside it.
C6_DecodeRange ==
    (fn = "icao_to_registration" /\ Called) =>
        IF InUSBlock(AddressOf(input)) THEN output.tag = "Ok"
                                       ELSE output.tag = "Err"

C6_Witness ==
    /\ fn = "icao_to_registration"
    /\ AddressOf(input) = US_BASE
    /\ output.tag = "Err"

\* The cases of C7, over a string s.
Alphabet34 == Letters \cup Digits
StartsWithN(s) == Len(s) >= 1 /\ s[1] = "N"

\* a letter at one of the first four positions after the N has a digit
\* somewhere after it
LetterThenDigit(s) ==
    \E i \in 2..5 : \E j \in (i + 1)..Len(s) :
        s[i] \in Letters /\ s[j] \in Digits

\* the string ends in a run of more than 2 letters after the N
LongLetterRun(s) ==
    /\ Len(s) >= 4
    /\ \A i \in (Len(s) - 2)..Len(s) : s[i] \in Letters

OutsideAlphabet(s) == \E i \in 1..Len(s) : s[i] \notin Alphabet34

\* what the encoder works on: the string without its surrounding whitespace,
\* ASCII letters in upper case
Normalised(s) == to_ascii_uppercase(trim(s))

\* C7, as claimed: registration_to_icao returns a failure for every string
\* of at most 6 characters starting with N in which a letter is followed by
\* a digit or the trailing run of letters is longer than 2, and for every
\* string that does not start with N, is longer than 6 characters, or holds
\* a character outside the 34-symbol alphabet.
C7_Rejects_Claimed ==
    (fn = "registration_to_icao" /\ Called) =>
        /\ (StartsWithN(input) /\ Len(input) <= 6
              /\ (LetterThenDigit(input) \/ LongLetterRun(input)))
           => output.tag = "Err"
        /\ ~StartsWithN(input) => output.tag = "Err"
        /\ Len(input) > 6 => output.tag = "Err"
        /\ OutsideAlphabet(input) => output.tag = "Err"

\* C7, amended: for a string of at most 6 characters starting with N in
\* which a letter is followed by a digit or the trailing run of letters is
\* longer than 2, registration_to_icao returns a failure, or aborts when the
\* character after the N is 0; it returns a failure for every string that
\* does not start with N, and for every string that, once surrounding
\* whitespace is trimmed and ASCII letters are upper-cased, is longer than 6
\* characters or holds a character outside the 34-symbol alphabet.
C7_Rejects ==
    (fn = "registration_to_icao" /\ Called) =>
        /\ (StartsWithN(input) /\ Len(input) <= 6
              /\ (LetterThenDigit(input) \/ LongLetterRun(input)))
           => \/ output.tag = "Err"
              \/ output.tag = "Panic" /\ input[2] = "0"
        /\ ~StartsWithN(input) => output.tag = "Err"
        /\ Len(Normalised(input)) > 6 => output.tag = "Err"
        /\ OutsideAlphabet(Normalised(input)) => output.tag = "Err"

C7_Witness ==
    /\ fn = "registration_to_icao"
    /\ StartsWithN(input) /\ Len(input) = 4 /\ input[2] = "1"
    /\ LetterThenDigit(input)
    /\ output.tag = "Err" /\ output.val = "Invalid suffix"

(***************************************************************************)
(* The claims about the country lookup.                                    *)
(***************************************************************************)
\* the 24-character binary rendering of three bytes, most significant bit
\* first
Bits24(b) ==
    LET a == AddressOf(b)
    IN  [i \in 1..24 |-> IF (a \div (2 ^ (24 - i))) % 2 = 1 THEN "1" ELSE "0"]

IsPrefixOf(p, b) == Len(p) <= Len(b) /\ \A i \in DOMAIN p : p[i] = b[i]

\* the table entries whose prefix is a prefix of the rendering of b
Matching(b) ==
    LET bits == Bits24(b)
    IN  {k \in 1..Len(ICAO_ALLOCATIONS) : IsPrefixOf(ICAO_ALLOCATIONS[k][1], bits)}

\* the entries of a set with the longest prefix
Longest(M) ==
    {k \in M : \A j \in M : Len(ICAO_ALLOCATIONS[j][1]) <= Len(ICAO_ALLOCATIONS[k][1])}

\* C8: icao_to_country returns the code of the longest table prefix that is
\* a prefix of the address's binary rendering, and absent when no table
\* prefix matches; 0x0CA000 yields "AG".
C8_LongestPrefix ==
    (fn = "icao_to_country" /\ Called) =>
        LET M == Matching(input)
        IN  /\ IF M = {} THEN output.tag = "None"
               ELSE /\ output.tag = "Some"
                    /\ \A k \in Longest(M) : output.val = ICAO_ALLOCATIONS[k][2]
            /\ input = <<12, 160, 0>> => (output.tag = "Some" /\ output.val = "AG")

C8_Witness ==
    /\ fn = "icao_to_country"
    /\ input = <<12, 160, 0>>
    /\ Matching(input) # {}
    /\ output.tag = "Some" /\ output.val = "AG"

\* C9: for a u32 value v above 0xFFFFFF icao_u32_to_country is absent;
\* otherwise it equals icao_to_country on the three big-endian bytes of v.
\* 0xFFFFFF and 0x000000 both return absent.
C9_U32Version ==
    (fn = "icao_u32_to_country" /\ Called) =>
        /\ input \notin 0..16777215 => output.tag = "None"
        /\ (input \in 0..16777215 /\ CalledBack) => output = back
        /\ input \in {0, 16777215} => output.tag = "None"

C9_Witness ==
    /\ fn = "icao_u32_to_country"
    /\ input = 11243087
    /\ output.tag = "Some" /\ output.val = "US"
    /\ back = output

\* C10: the table ICAO_ALLOCATIONS that the lookups scan is sorted by prefix
\* length, longest first: for every pair of entries at positions i < j the
\* prefix at i is at least as long as the prefix at j.
C10_SortedLongestFirst ==
    fn \in {"icao_to_country", "icao_u32_to_country"} =>
        \A i \in 1..Len(ICAO_ALLOCATIONS) : \A j \in (i + 1)..Len(ICAO_ALLOCATIONS) :
            Len(ICAO_ALLOCATIONS[i][1]) >= Len(ICAO_ALLOCATIONS[j][1])

\* the rows of the table with the sentinel code
SentinelRows == {k \in 1..Len(ICAO_ALLOCATIONS) : ICAO_ALLOCATIONS[k][2] = "ZZ"}

\* the lookup returns "ZZ" exactly for the addresses under a sentinel row
SentinelRowsAreOrdinary ==
    (fn = "icao_to_country" /\ Called) =>
        ((output.tag = "Some" /\ output.val = "ZZ")
            <=> (Matching(input) \cap SentinelRows # {}))

\* C11, as claimed: exactly two entries of the table map to "ZZ", and the
\* lookup handles them by the same scan as every other row.
C11_TwoSentinelRows ==
    fn \in {"icao_to_country", "icao_u32_to_country"} =>
        Cardinality(SentinelRows) = 2 /\ SentinelRowsAreOrdinary

\* C11, amended: exactly three entries of the table map to "ZZ", and the
\* lookup handles them by the same scan as every other row: it returns "ZZ"
\* exactly for the addresses one of their prefixes starts.
C11_ThreeSentinelRows ==
    fn \in {"icao_to_country", "icao_u32_to_country"} =>
        Cardinality(SentinelRows) = 3 /\ SentinelRowsAreOrdinary

C11_Witness ==
    /\ fn = "icao_to_country"
    /\ input = <<240, 0, 0>>
    /\ Matching(input) \cap SentinelRows # {}
    /\ output.tag = "Some" /\ output.val = "ZZ"

\* no prefix of the table is equal to, or a proper prefix of, another one
PrefixFree ==
    \A i \in 1..Len(ICAO_ALLOCATIONS) : \A j \in 1..Len(ICAO_ALLOCATIONS) :
        i # j => ~IsPrefixOf(ICAO_ALLOCATIONS[i][1], ICAO_ALLOCATIONS[j][1])

\* C18: the table is prefix-free, so at most one entry matches any address
\* and icao_to_country returns the code of that entry whatever the order of
\* the rows (the last matching row gives the same code as the first).
C18_PrefixFree ==
    fn \in {"icao_to_country", "icao_u32_to_country"} =>
        /\ PrefixFree
        /\ (fn = "icao_to_country" /\ Called) =>
              LET M == Matching(input)
              IN  /\ Cardinality(M) <= 1
                  /\ M # {} =>
                        /\ output.tag = "Some"
                        /\ output.val =
                             ICAO_ALLOCATIONS[CHOOSE k \in M : \A j \in M : j <= k][2]

C18_Witness ==
    /\ fn = "icao_to_country"
    /\ input = <<16, 0, 0>>
    /\ Cardinality(Matching(input)) = 1
    /\ output.tag = "Some" /\ output.val = "RU"

(***************************************************************************)
(* The claims about the steps of the codec.                                *)
(***************************************************************************)
\* the value of a digit character
DigitValue(c) == CHOOSE d \in 0..9 : DIGITS[d + 1] = c

\* N followed by 1 to 4 digits
DigitsOnly(s) ==
    /\ Len(s) \in 2..5
    /\ s[1] = "N"
    /\ \A i \in 2..Len(s) : s[i] \in Digits

BucketSize(i) ==
    CASE i = 0 -> BUCKET1_SIZE [] i = 1 -> BUCKET2_SIZE
      [] i = 2 -> BUCKET3_SIZE [] OTHER -> BUCKET4_SIZE

\* what the digits after position 0 add: d * BUCKET(i+1)_SIZE + SUFFIX_SIZE
\* for the digit d at position i >= 1
LaterDigits(s) ==
    LET term(i) == IF i + 2 <= Len(s)
                   THEN DigitValue(s[i + 2]) * BucketSize(i) + SUFFIX_SIZE
                   ELSE 0
    IN  term(1) + term(2) + term(3)

\* C16, as claimed: the accumulator starts at 1 and a digit d at position
\* i < 4 adds d * BUCKET(i+1)_SIZE, plus SUFFIX_SIZE when i >= 1; a digit d
\* at position 0 adds d * BUCKET1_SIZE.
C16_DigitTerms_Claimed ==
    (fn = "registration_to_icao" /\ DigitsOnly(input) /\ output.tag = "Ok") =>
        AddressOf(output.val) =
            US_BASE + 1 + DigitValue(input[2]) * BUCKET1_SIZE + LaterDigits(input)

\* C16, amended: the accumulator starts at 1 and a digit d at position i
\* with 1 <= i < 4 adds d * BUCKET(i+1)_SIZE + SUFFIX_SIZE, while a digit d
\* at position 0 adds (d - 1) * BUCKET1_SIZE, computed in u32: for d = 0 the
\* subtraction aborts under overflow checks and wraps without them.
C16_DigitTerms ==
    (fn = "registration_to_icao" /\ DigitsOnly(input) /\ Called) =>
        \/ /\ output.tag = "Ok"
           /\ AddressOf(output.val) =
                 US_BASE + 1 + (DigitValue(input[2]) - 1) * BUCKET1_SIZE
                   + LaterDigits(input)
        \/ /\ output.tag = "Panic"
           /\ input[2] = "0"

C16_Witness ==
    /\ fn = "registration_to_icao"
    /\ input = <<"N", "2", "3", "9", "1">>
    /\ output.tag = "Ok"
    /\ AddressOf(output.val) =
          US_BASE + 1 + BUCKET1_SIZE + (3 * BUCKET2_SIZE + SUFFIX_SIZE)
            + (9 * BUCKET3_SIZE + SUFFIX_SIZE) + (BUCKET4_SIZE + SUFFIX_SIZE)

\* the suffix string the numbering gives offset k: empty for 0, else the
\* letter (k-1) / 25, followed, unless (k-1) mod 25 is 0, by the letter
\* (k-1) mod 25 - 1
SuffixOf(k) ==
    IF k = 0 THEN <<>>
    ELSE IF (k - 1) % 25 = 0 THEN <<CHARSET[((k - 1) \div 25) + 1]>>
    ELSE <<CHARSET[((k - 1) \div 25) + 1], CHARSET[(k - 1) % 25]>>

\* C17: suffix_offset(get_suffix(k)) = k for every k in 0..600,
\* get_suffix(suffix_offset(s)) = s for every suffix string s (empty, one
\* letter, two letters), and get_suffix follows first = (k-1)/25,
\* rem = (k-1) mod 25 with offset 0 the empty string.
C17_SuffixBijection ==
    /\ (fn = "get_suffix" /\ Called) =>
          /\ output.tag = "Ok" /\ output.val = SuffixOf(input)
          /\ CalledBack => (back.tag = "Some" /\ back.val = input)
    /\ (fn = "suffix_offset" /\ Called) =>
          /\ output.tag = "Some" /\ output.val \in 0..600
          /\ CalledBack => (back.tag = "Ok" /\ back.val = input)

C17_Witness ==
    /\ fn = "get_suffix"
    /\ input = 600
    /\ output.tag = "Ok" /\ output.val = <<"Z", "Z">>
    /\ back.tag = "Some" /\ back.val = 600

\* C19: every string icao_to_registration returns is well formed (N, then a
\* digit 1-9, then up to 4 more characters of the 34-symbol alphabet, the
\* letters forming a trailing run of at most 2), and the decoder returns a
\* string for every address in [0xA00001, 0xADF7C7].
C19_DecodedWellFormed ==
    (fn = "icao_to_registration" /\ Called) =>
        /\ InUSBlock(AddressOf(input)) => output.tag = "Ok"
        /\ output.tag # "Panic"
        /\ output.tag = "Ok" =>
              /\ Len(output.val) \in 2..6
              /\ output.val[1] = "N"
              /\ output.val[2] \in Digits \ {"0"}
              /\ \A i \in 2..Len(output.val) : output.val[i] \in Alphabet34
              /\ \A i \in 2..Len(output.val) :
                    output.val[i] \in Letters =>
                        /\ i >= Len(output.val) - 1
                        /\ \A j \in i..Len(output.val) : output.val[j] \in Letters

C19_Witness ==
    /\ fn = "icao_to_registration"
    /\ AddressOf(input) = US_MAX
    /\ output.tag = "Ok" /\ output.val = <<"N", "9", "9", "9", "9", "9">>

(***************************************************************************)
(* The claims about the Parser.                                            *)
(***************************************************************************)
\* the arguments of the call of parse the state holds
ParseCalled == fn \in {"parse", "parse_simple"} /\ output # NotCalled
TextArg == IF fn = "parse" THEN input.text ELSE input
StrictArg == fn = "parse" /\ input.strict
IcaoArg == fn = "parse" /\ input.icao24bit

\* the gathered candidates, as <<prefix length, position in the dataset>>:
\* the records one of whose callsigns is a literal prefix of the input
Candidates ==
    {c \in (0..Len(TextArg)) \X (1..Len(data)) :
        \E j \in 1..Len(data[c[2]].callsigns) :
            data[c[2]].callsigns[j] = SubSeq(TextArg, 1, c[1])}

\* the candidates whose selected pattern matches the input
MatchingCandidates ==
    {c \in Candidates : pattern_matches(data[c[2]], TextArg, StrictArg)}

\* candidate c comes before candidate d: higher priority, then shorter
\* prefix, then lower index
Before(c, d) ==
    \/ data[c[2]].priority > data[d[2]].priority
    \/ /\ data[c[2]].priority = data[d[2]].priority
       /\ \/ c[1] < d[1]
          \/ c[1] = d[1] /\ c[2] <= d[2]

Selected(M) == CHOOSE c \in M : \A d \in M : Before(c, d)

\* C12: in callsign mode parse returns the entity of the matching candidate
\* of the highest priority that comes first in candidate order (ascending
\* prefix length, then index), and returns absent exactly when no candidate
\* matches.
C12_CallsignSelection ==
    (ParseCalled /\ ~IcaoArg) =>
        LET M == MatchingCandidates
        IN  IF M = {} THEN output = Absent
            ELSE output = Some(data[Selected(M)[2]].entity_result)

\* the positions of the records that list key among their ICAO prefixes
ListedBy(key) ==
    {i \in 1..Len(data) :
        \E j \in 1..Len(data[i].icao24bit_prefixes) :
            data[i].icao24bit_prefixes[j] = key}

\* the lengths of the literal prefixes of the input that are keys of the
\* ICAO prefix index
KeyPrefixLens ==
    {n \in 1..Len(TextArg) : ListedBy(SubSeq(TextArg, 1, n)) # {}}

\* the entity of the record the index holds for the shortest such prefix:
\* the last record of the dataset that lists it
ShortestKeyEntity ==
    LET n == CHOOSE k \in KeyPrefixLens : \A l \in KeyPrefixLens : k <= l
        listed == ListedBy(SubSeq(TextArg, 1, n))
    IN  data[CHOOSE i \in listed : \A l \in listed : i >= l].entity_result

HasMultiByte(s) == \E i \in 1..Len(s) : len_utf8(s[i]) > 1

\* C13 as claimed: in IcaoAddress mode parse returns the record indexed by
\* the shortest prefix of the input that is a key, and absent when no prefix
\* is a key, whatever the strictness and the input.
C13_ShortestPrefix_Claimed ==
    (ParseCalled /\ IcaoArg) =>
        IF KeyPrefixLens = {} THEN output = Absent
        ELSE output = Some(ShortestKeyEntity)

\* C13 amended: in IcaoAddress mode a strict call whose input is not six
\* characters of 0-9A-F returns absent; any other call aborts when the input
\* holds a multi-byte character, and otherwise returns the record indexed by
\* the shortest prefix of the input that is a key, or absent when no prefix
\* is a key.
C13_ShortestPrefix ==
    (ParseCalled /\ IcaoArg) =>
        IF StrictArg /\ ~is_hex6(TextArg) THEN output = Absent
        ELSE IF HasMultiByte(TextArg) THEN output.tag = "Panic"
        ELSE IF KeyPrefixLens = {} THEN output = Absent
        ELSE output = Some(ShortestKeyEntity)

\* a strict call on six hexadecimal digits two prefixes of which are keys of
\* different records returned the record of the shorter one
C13_Witness ==
    /\ ParseCalled /\ IcaoArg /\ StrictArg
    /\ Cardinality(KeyPrefixLens) >= 2
    /\ \E n \in KeyPrefixLens :
          data[CHOOSE i \in ListedBy(SubSeq(TextArg, 1, n)) : TRUE].entity_result
              # ShortestKeyEntity
    /\ output = Some(ShortestKeyEntity)

\* C14: every call of parse (either mode, either strictness) and of
\* parse_simple returns a record or absent; none aborts.
C14_ParseNeverAborts ==
    ParseCalled => output.tag \in {"Some", "None"}

(***************************************************************************)
(* The claim about the statics under concurrent first use.                 *)
(***************************************************************************)
\* the thread waits: it dereferences a cell whose initialiser is running
Waits(t) ==
    /\ next_step(threads[t]) \in LAZY_CELLS
    /\ cells[next_step(threads[t])].state = "Running"

\* the thread can take a step, or waits for a thread that can proceed within
\* n further waits
RECURSIVE CanProceed(_, _)
CanProceed(t, n) ==
    \/ ~Waits(t)
    \/ /\ n > 0
       /\ cells[next_step(threads[t])].by # t
       /\ CanProceed(cells[next_step(threads[t])].by, n - 1)

\* the thread is between calls and has dereferenced a cell
Returned(t) ==
    next_step(threads[t]) = "idle" /\ threads[t].seen # {}

ConcurrentUse == fn = "parse" /\ DOMAIN cells = LAZY_CELLS

\* C15: with several threads calling parse as the first use, the
\* initialiser of DATA and of each index runs at most once and its result
\* is stored exactly once by the time the cell is Complete, a dereference
\* hands out only the stored (fully constructed) value, no thread waits for
\* a cell that can never become Complete (no deadlock through the nested
\* initialisers), and the stored value is never stored again by a later
\* call.
C15_LazyInitialisedOnce ==
    ConcurrentUse =>
        /\ \A c \in LAZY_CELLS :
              /\ cells[c].inits <= 1
              /\ cells[c].stores <= cells[c].inits
              /\ cells[c].state = "Incomplete" <=> cells[c].inits = 0
              /\ cells[c].state = "Complete" <=> cells[c].stores = 1
              /\ cells[c].state = "Complete" => cells[c].value = "built"
        /\ \A t \in Threads :
              /\ threads[t].seen \subseteq {"built"}
              /\ CanProceed(t, NumThreads)

\* every thread has returned from a call, every cell is Complete after one
\* run of its initialiser, and MIN_CALLSIGN_LEN and DATA were initialised by
\* different threads: the nested initialisation met the other thread's
C15_Witness ==
    /\ ConcurrentUse
    /\ \A t \in Threads : Returned(t) /\ threads[t].seen = {"built"}
    /\ \A c \in LAZY_CELLS :
          cells[c].state = "Complete" /\ cells[c].inits = 1
          /\ cells[c].stores = 1
    /\ cells["MIN_CALLSIGN_LEN"].by # cells["DATA"].by

====
